---- MODULE Spec2Model ----
(***************************************************************************)
(* Model of the minidump binary view (src/src/view.rs):                    *)
(*   - MinidumpBinaryViewType::is_valid_for   (the MDMP signature check)    *)
(*   - MinidumpBinaryView::translate_minidump_platform                      *)
(*   - MinidumpBinaryView::init               (platform + segment table)    *)
(* The minidump container, the stream accessor and the host view are       *)
(* external: every call into them returns a value drawn from a small set.  *)
(* u64 and u32 are scaled down to U64Bits and U32Bits bits; every sum the  *)
(* code computes in u64 is reduced modulo U64Mod, and an overflowing sum   *)
(* panics in a build with overflow checks and wraps in a build without.    *)
(***************************************************************************)
EXTENDS Integers, Sequences, FiniteSets, TLC

\* ------------------------------------------------------------------ bounds
\* width of the model's u64
U64Bits == 4
\* width of the model's u32 (the rva and data_size of a 32-bit descriptor)
U32Bits == 2
\* most memory regions one container carries (both lists together)
MaxEntries == 3
\* longest input handed to is_valid_for
MaxDataLen == 5

U64Mod == 2 ^ U64Bits
U64Max == U64Mod - 1
U32Max == (2 ^ U32Bits) - 1

None == "None"

Min(a, b) == IF a <= b THEN a ELSE b

\* ------------------------------------------------------- container detector
\* the bytes of b"MDMP"
Byte_M == 77
Byte_D == 68
Byte_P == 80
MDMP == <<Byte_M, Byte_D, Byte_M, Byte_P>>

\* bytes an input is built from: the signature's bytes and one other byte
ByteSet == {Byte_M, Byte_D, Byte_P, 0}

\* BinaryView::read_into_vec(dest, offset, len): dest becomes the bytes
\* actually available in [offset, offset + len), fewer or none on a short read
read_into_vec(bytes, offset, len) ==
    IF offset >= Len(bytes) THEN <<>>
    ELSE SubSeq(bytes, offset + 1, Min(offset + len, Len(bytes)))

\* a detector that compares only the first three bytes
is_valid_for_prefix3(bytes) ==
    LET magic_number == read_into_vec(bytes, 0, 3)
    IN  magic_number = SubSeq(MDMP, 1, 3)

is_valid_for(bytes) ==
    LET magic_number == read_into_vec(bytes, 0, 4)
    IN  magic_number = MDMP

\* ------------------------------------------------------- platform resolver
\* minidump::system_info::Cpu and Os (Unknown stands for Unknown(u32))
CpuSet == {"X86", "X86_64", "Ppc", "Ppc64", "Sparc", "Arm", "Arm64", "Mips64", "Unknown"}
OsSet == {"Windows", "MacOs", "Ios", "Linux", "Solaris", "Android", "Ps3", "NaCl", "Unknown"}
EndianSet == {"Little", "Big"}

\* every name translate_minidump_platform looks up
PlatformNames ==
    {"windows-aarch64", "windows-armv7", "windows-x86", "windows-x86_64",
     "mac-aarch64", "mac-armv7", "mac-x86", "mac-x86_64",
     "linux-aarch64", "linux-armv7", "linux-x86", "linux-x86_64",
     "linux-ppc32_le", "linux-ppc32", "linux-ppc64_le", "linux-ppc64"}

\* Platform::by_name against the host registry reg (the set of known names)
Platform_by_name(reg, name) == IF name \in reg THEN name ELSE None

\* a resolver that does not consult the byte order for Ppc64
translate_minidump_platform_no_endian(reg, minidump_cpu_arch, minidump_endian, minidump_os) ==
    CASE minidump_os = "Windows" ->
           (CASE minidump_cpu_arch = "Arm64" -> Platform_by_name(reg, "windows-aarch64")
              [] minidump_cpu_arch = "Arm" -> Platform_by_name(reg, "windows-armv7")
              [] minidump_cpu_arch = "X86" -> Platform_by_name(reg, "windows-x86")
              [] minidump_cpu_arch = "X86_64" -> Platform_by_name(reg, "windows-x86_64")
              [] OTHER -> None)
      [] minidump_os = "MacOs" ->
           (CASE minidump_cpu_arch = "Arm64" -> Platform_by_name(reg, "mac-aarch64")
              [] minidump_cpu_arch = "Arm" -> Platform_by_name(reg, "mac-armv7")
              [] minidump_cpu_arch = "X86" -> Platform_by_name(reg, "mac-x86")
              [] minidump_cpu_arch = "X86_64" -> Platform_by_name(reg, "mac-x86_64")
              [] OTHER -> None)
      [] minidump_os = "Linux" ->
           (CASE minidump_cpu_arch = "Arm64" -> Platform_by_name(reg, "linux-aarch64")
              [] minidump_cpu_arch = "Arm" -> Platform_by_name(reg, "linux-armv7")
              [] minidump_cpu_arch = "X86" -> Platform_by_name(reg, "linux-x86")
              [] minidump_cpu_arch = "X86_64" -> Platform_by_name(reg, "linux-x86_64")
              [] minidump_cpu_arch = "Ppc" ->
                   (IF minidump_endian = "Little"
                    THEN Platform_by_name(reg, "linux-ppc32_le")
                    ELSE Platform_by_name(reg, "linux-ppc32"))
              [] minidump_cpu_arch = "Ppc64" -> Platform_by_name(reg, "linux-ppc64_le")
              [] OTHER -> None)
      [] OTHER -> None

translate_minidump_platform(reg, minidump_cpu_arch, minidump_endian, minidump_os) ==
    CASE minidump_os = "Windows" ->
           (CASE minidump_cpu_arch = "Arm64" -> Platform_by_name(reg, "windows-aarch64")
              [] minidump_cpu_arch = "Arm" -> Platform_by_name(reg, "windows-armv7")
              [] minidump_cpu_arch = "X86" -> Platform_by_name(reg, "windows-x86")
              [] minidump_cpu_arch = "X86_64" -> Platform_by_name(reg, "windows-x86_64")
              [] OTHER -> None)
      [] minidump_os = "MacOs" ->
           (CASE minidump_cpu_arch = "Arm64" -> Platform_by_name(reg, "mac-aarch64")
              [] minidump_cpu_arch = "Arm" -> Platform_by_name(reg, "mac-armv7")
              [] minidump_cpu_arch = "X86" -> Platform_by_name(reg, "mac-x86")
              [] minidump_cpu_arch = "X86_64" -> Platform_by_name(reg, "mac-x86_64")
              [] OTHER -> None)
      [] minidump_os = "Linux" ->
           (CASE minidump_cpu_arch = "Arm64" -> Platform_by_name(reg, "linux-aarch64")
              [] minidump_cpu_arch = "Arm" -> Platform_by_name(reg, "linux-armv7")
              [] minidump_cpu_arch = "X86" -> Platform_by_name(reg, "linux-x86")
              [] minidump_cpu_arch = "X86_64" -> Platform_by_name(reg, "linux-x86_64")
              [] minidump_cpu_arch = "Ppc" ->
                   (IF minidump_endian = "Little"
                    THEN Platform_by_name(reg, "linux-ppc32_le")
                    ELSE Platform_by_name(reg, "linux-ppc32"))
              [] minidump_cpu_arch = "Ppc64" ->
                   (IF minidump_endian = "Little"
                    THEN Platform_by_name(reg, "linux-ppc64_le")
                    ELSE Platform_by_name(reg, "linux-ppc64"))
              [] OTHER -> None)
      [] minidump_os = "NaCl" -> None
      [] minidump_os = "Android" -> None
      [] minidump_os = "Ios" -> None
      [] minidump_os = "Ps3" -> None
      [] minidump_os = "Solaris" -> None
      [] OTHER -> None

\* ------------------------------------------------------- segment collector
\* SegmentData::from_addresses_and_size in u64 arithmetic: a sum past
\* U64Max is reduced modulo U64Mod (what a build without overflow checks
\* stores); AddOverflows tells whether the sum left the u64 range.
AddOverflows(a, b) == a + b > U64Max
WrappingAdd(a, b) == (a + b) % U64Mod

\* a constructor that ends the file range at the mapped address's end
from_addresses_and_size_skewed(rva, mapped_addr, size) ==
    [rva_range |-> [start |-> rva, end |-> WrappingAdd(mapped_addr, size)],
     mapped_addr_range |-> [start |-> mapped_addr, end |-> WrappingAdd(mapped_addr, size)]]

from_addresses_and_size(rva, mapped_addr, size) ==
    [rva_range |-> [start |-> rva, end |-> WrappingAdd(rva, size)],
     mapped_addr_range |-> [start |-> mapped_addr, end |-> WrappingAdd(mapped_addr, size)]]

\* the sums from_addresses_and_size computes leave the u64 range
ConstructorOverflows(rva, mapped_addr, size) ==
    AddOverflows(rva, size) \/ AddOverflows(mapped_addr, size)

\* MinidumpMemory::memory_range, as by_addr's range map keys a region: none
\* for an empty region or one whose end leaves the u64 range, else the
\* inclusive range [base_address, base_address + size - 1]
HasMemoryRange(region) ==
    region.size # 0 /\ ~AddOverflows(region.base_address, region.size)
RangeStart(region) == region.base_address
RangeEnd(region) == region.base_address + region.size - 1

\* order of the range map's keys: by start, then by end
RangeLeq(a, b) ==
    \/ RangeStart(a) < RangeStart(b)
    \/ RangeStart(a) = RangeStart(b) /\ RangeEnd(a) <= RangeEnd(b)

\* regions that have a memory range, in stream order
RECURSIVE WithMemoryRange(_)
WithMemoryRange(regions) ==
    IF regions = <<>> THEN <<>>
    ELSE IF HasMemoryRange(Head(regions))
         THEN <<Head(regions)>> \o WithMemoryRange(Tail(regions))
         ELSE WithMemoryRange(Tail(regions))

\* stable insertion of region e into the sorted sequence s
RECURSIVE InsertByRange(_, _)
InsertByRange(s, e) ==
    IF s = <<>> THEN <<e>>
    ELSE IF RangeLeq(s[Len(s)], e) THEN Append(s, e)
         ELSE Append(InsertByRange(SubSeq(s, 1, Len(s) - 1), e), s[Len(s)])

RECURSIVE SortByRange(_)
SortByRange(regions) ==
    IF regions = <<>> THEN <<>>
    ELSE InsertByRange(SortByRange(SubSeq(regions, 1, Len(regions) - 1)),
                       regions[Len(regions)])

\* a sorted region that starts inside the last region kept is discarded
RECURSIVE DropOverlapping(_, _)
DropOverlapping(kept, sorted) ==
    IF sorted = <<>> THEN kept
    ELSE IF kept # <<>> /\ RangeStart(Head(sorted)) <= RangeEnd(kept[Len(kept)])
         THEN DropOverlapping(kept, Tail(sorted))
         ELSE DropOverlapping(Append(kept, Head(sorted)), Tail(sorted))

\* an iterator that yields the kept regions in stream order
by_addr_stream_order(regions) == WithMemoryRange(regions)

\* MinidumpMemoryList::by_addr(): the regions of the list's range map, in
\* ascending address order
by_addr(regions) == DropOverlapping(<<>>, SortByRange(WithMemoryRange(regions)))

\* MinidumpMemory64List::iter(): every region, in stream order
iter(regions) == regions

\* ------------------------------------------------------------------ state
VARIABLES
    data,              \* is_valid_for: the bytes of the candidate input view
    accepted,          \* is_valid_for: "unasked", or the answer TRUE / FALSE as a string
    registry,          \* platform names the host registry knows
    query,             \* resolver: the (cpu, endian, os) asked about
    resolved,          \* resolver: "unasked", None, or the platform returned
    resolved_flipped,  \* resolver: the same for the opposite byte order
    pc,                \* init: the statement it is at
    outcome,           \* init: Running, Ok, Err, PanicSlice, PanicOverflow
    overflow_checks,   \* the build panics on integer overflow (else it wraps)
    endian,            \* minidump_obj.endian
    system_info,       \* what get_stream::<MinidumpSystemInfo>() returned
    platform,          \* the view's default platform, None while unset
    memory_list,       \* what get_stream::<MinidumpMemoryList>() returned
    raw_stream,        \* what get_raw_stream(Memory64List) returned
    memory64_list,     \* what get_stream::<MinidumpMemory64List>() returned
    iter32,            \* regions by_addr() has still to yield
    iter64,            \* regions iter() has still to yield
    base_rva,          \* the field read from raw_stream[8..16]
    current_rva,       \* the 64-bit path's cursor
    found,             \* the "Found ... memory segment" debug lines, in order
    segment_data,      \* Vec<SegmentData>
    next_segment,      \* index of the next element of segment_data to register
    segments           \* the add_segment calls made on the view, in order

vars == <<data, accepted, registry, query, resolved, resolved_flipped,
          pc, outcome, overflow_checks, endian, system_info, platform,
          memory_list, raw_stream, memory64_list, iter32, iter64, base_rva,
          current_rva, found, segment_data, next_segment, segments>>

detector_vars == <<data, accepted>>
resolver_vars == <<query, resolved, resolved_flipped>>
init_vars == <<pc, outcome, overflow_checks, endian, system_info, platform,
               memory_list, raw_stream, memory64_list, iter32, iter64, base_rva,
               current_rva, found, segment_data, next_segment, segments>>

\* all sequences over S of length at most n
SeqsUpTo(S, n) == UNION {[1..k -> S] : k \in 0..n}

\* ------------------------------------------------------------ input domains
\* a region of the 32-bit list: desc.memory.rva is a u32, size a u32 widened
\* to u64; the last region's end leaves the u64 range
Region32Set ==
    [rva : {1, U32Max}, base_address : {0, 1}, size : {0, 1, 2}] \cup
    {[rva |-> 1, base_address |-> U64Max, size |-> 1]}
\* a region of the 64-bit list
Region64Set == [base_address : {0, U64Max}, size : {0, 1, 2}]
\* values of the base-offset field of the raw Memory64List stream
BaseRvaSet == {1, U64Max}

StreamErr == [ok |-> FALSE, regions |-> <<>>]
StreamOk(regions) == [ok |-> TRUE, regions |-> regions]

SystemInfoErr == [ok |-> FALSE, cpu |-> "Unknown", os |-> "Unknown"]
\* the system descriptions a container handed to init carries
SystemInfoResults ==
    {SystemInfoErr} \cup
    {[ok |-> TRUE, cpu |-> s[1], os |-> s[2]] :
        s \in {<<"Ppc64", "Linux">>, <<"X86_64", "Solaris">>, <<"Sparc", "Linux">>}}

\* the registry init runs against: a host without big-endian 64-bit PowerPC
InitRegistry == PlatformNames \ {"linux-ppc64"}

RawStreamErr == [ok |-> FALSE, len |-> 0, field8 |-> 0]
\* a raw stream too short to hold bytes 8..16, or one of n descriptors after
\* the 16-byte header whose field at bytes 8..16 decodes to b
RawStreamResults(n) ==
    {RawStreamErr} \cup
    {[ok |-> TRUE, len |-> l, field8 |-> 0] : l \in {0, 8, 15}} \cup
    {[ok |-> TRUE, len |-> 16 + 16 * k, field8 |-> b] : k \in 0..n, b \in BaseRvaSet}

\* regions the raw stream has room for after its header
RawCapacity(raw) == (raw.len - 16) \div 16

\* ------------------------------------------------------------------- Init
DetectorIdle == data = <<>> /\ accepted = "unasked"
ResolverIdle ==
    /\ query = [cpu |-> "Unknown", endian |-> "Little", os |-> "Unknown"]
    /\ resolved = "unasked"
    /\ resolved_flipped = "unasked"
InitIdle(p) ==
    /\ pc = p
    /\ outcome = "Running"
    /\ endian = "Little"
    /\ system_info = SystemInfoErr
    /\ platform = None
    /\ memory_list = StreamErr
    /\ raw_stream = RawStreamErr
    /\ memory64_list = StreamErr
    /\ iter32 = <<>>
    /\ iter64 = <<>>
    /\ base_rva = 0
    /\ current_rva = 0
    /\ found = <<>>
    /\ segment_data = <<>>
    /\ next_segment = 1
    /\ segments = <<>>

\* MinidumpBinaryView::new followed by a call of init
Init ==
    /\ DetectorIdle
    /\ ResolverIdle
    /\ registry = InitRegistry
    /\ overflow_checks \in BOOLEAN
    /\ InitIdle("parent_view")

\* ------------------------------------------------------------ init, by step
Return(result) == pc' = "done" /\ outcome' = result

\* line 119: self.parent_view()?
ParentView ==
    /\ pc = "parent_view"
    /\ \E ok \in BOOLEAN :
          IF ok THEN pc' = "read_buffer" /\ outcome' = outcome
                ELSE Return("Err")
    /\ UNCHANGED <<detector_vars, resolver_vars, registry, overflow_checks, endian,
                   system_info, platform, memory_list, raw_stream, memory64_list,
                   iter32, iter64, base_rva, current_rva, found, segment_data,
                   next_segment, segments>>

\* line 120: parent_view.read_buffer(0, parent_view.len())?
ReadBuffer ==
    /\ pc = "read_buffer"
    /\ \E ok \in BOOLEAN :
          IF ok THEN pc' = "read" /\ outcome' = outcome
                ELSE Return("Err")
    /\ UNCHANGED <<detector_vars, resolver_vars, registry, overflow_checks, endian,
                   system_info, platform, memory_list, raw_stream, memory64_list,
                   iter32, iter64, base_rva, current_rva, found, segment_data,
                   next_segment, segments>>

\* lines 123, 204-207: Minidump::read(read_buffer)
MinidumpRead ==
    /\ pc = "read"
    /\ \E r \in {"Err"} \cup EndianSet :
          IF r = "Err"
          THEN Return("Err") /\ endian' = endian
          ELSE pc' = "system_info" /\ outcome' = outcome /\ endian' = r
    /\ UNCHANGED <<detector_vars, resolver_vars, registry, overflow_checks,
                   system_info, platform, memory_list, raw_stream, memory64_list,
                   iter32, iter64, base_rva, current_rva, found, segment_data,
                   next_segment, segments>>

\* a builder that assigns the looked-up platform before it checks the lookup
GetSystemInfo_platform_first ==
    /\ pc = "system_info"
    /\ \E si \in SystemInfoResults :
          /\ system_info' = si
          /\ IF ~si.ok
             THEN Return("Err") /\ platform' = platform
             ELSE LET p == translate_minidump_platform(registry, si.cpu, endian, si.os)
                  IN  /\ platform' = IF p = None THEN "linux-x86_64" ELSE p
                      /\ IF p = None
                         THEN Return("Err")
                         ELSE pc' = "memory_list" /\ outcome' = outcome
    /\ UNCHANGED <<detector_vars, resolver_vars, registry, overflow_checks, endian,
                   memory_list, raw_stream, memory64_list, iter32, iter64, base_rva,
                   current_rva, found, segment_data, next_segment, segments>>

\* lines 125-144: the system-info stream, the platform lookup and
\* set_default_platform
GetSystemInfo ==
    /\ pc = "system_info"
    /\ \E si \in SystemInfoResults :
          /\ system_info' = si
          /\ IF ~si.ok
             THEN Return("Err") /\ platform' = platform
             ELSE LET p == translate_minidump_platform(registry, si.cpu, endian, si.os)
                  IN  IF p = None
                      THEN Return("Err") /\ platform' = platform
                      ELSE pc' = "memory_list" /\ outcome' = outcome /\ platform' = p
    /\ UNCHANGED <<detector_vars, resolver_vars, registry, overflow_checks, endian,
                   memory_list, raw_stream, memory64_list, iter32, iter64, base_rva,
                   current_rva, found, segment_data, next_segment, segments>>

\* lines 147-151, 164-166: the 32-bit memory list and its by_addr() iterator
GetMemoryList ==
    /\ pc = "memory_list"
    /\ \E r \in {StreamErr} \cup {StreamOk(l) : l \in SeqsUpTo(Region32Set, MaxEntries)} :
          /\ memory_list' = r
          /\ iter32' = IF r.ok THEN by_addr(r.regions) ELSE <<>>
          /\ pc' = IF iter32' = <<>> THEN "raw_stream" ELSE "loop32"
    /\ UNCHANGED <<detector_vars, resolver_vars, registry, overflow_checks, outcome, endian,
                   system_info, platform, raw_stream, memory64_list, iter64, base_rva,
                   current_rva, found, segment_data, next_segment, segments>>

\* lines 151-163: one turn of the 32-bit loop
Collect32 ==
    /\ pc = "loop32"
    /\ iter32 # <<>>
    /\ LET memory_segment == Head(iter32)
       IN  /\ found' = Append(found, [list |-> "32",
                                      rva |-> memory_segment.rva,
                                      base_address |-> memory_segment.base_address,
                                      size |-> memory_segment.size])
           /\ IF /\ overflow_checks
                 /\ ConstructorOverflows(memory_segment.rva, memory_segment.base_address,
                                         memory_segment.size)
              THEN Return("PanicOverflow") /\ UNCHANGED <<segment_data, iter32>>
              ELSE /\ segment_data' = Append(segment_data,
                          from_addresses_and_size(memory_segment.rva,
                                                  memory_segment.base_address,
                                                  memory_segment.size))
                   /\ iter32' = Tail(iter32)
                   /\ pc' = IF iter32' = <<>> THEN "raw_stream" ELSE "loop32"
                   /\ outcome' = outcome
    /\ UNCHANGED <<detector_vars, resolver_vars, registry, overflow_checks, endian,
                   system_info, platform, memory_list, raw_stream, memory64_list,
                   iter64, base_rva, current_rva, next_segment, segments>>

\* lines 171-173: the raw Memory64List stream and its field at bytes 8..16;
\* the slice raw_stream[8..16] panics on a stream shorter than 16 bytes
GetRawStream ==
    /\ pc = "raw_stream"
    /\ \E r \in RawStreamResults(MaxEntries - Len(memory_list.regions)) :
          /\ raw_stream' = r
          /\ IF ~r.ok
             THEN pc' = "register" /\ outcome' = outcome /\ base_rva' = base_rva
             ELSE IF r.len < 16
                  THEN Return("PanicSlice") /\ base_rva' = base_rva
                  ELSE pc' = "memory64_list" /\ outcome' = outcome /\ base_rva' = r.field8
    /\ UNCHANGED <<detector_vars, resolver_vars, registry, overflow_checks, endian,
                   system_info, platform, memory_list, memory64_list, iter32, iter64,
                   current_rva, found, segment_data, next_segment, segments>>

\* lines 175-178, 192-194: the typed 64-bit list, its iter() and the cursor
GetMemory64List ==
    /\ pc = "memory64_list"
    /\ \E r \in {StreamErr} \cup
                {StreamOk(l) : l \in [1..RawCapacity(raw_stream) -> Region64Set]} :
          /\ memory64_list' = r
          /\ iter64' = IF r.ok THEN iter(r.regions) ELSE <<>>
          /\ current_rva' = IF r.ok THEN base_rva ELSE current_rva
          /\ pc' = IF iter64' = <<>> THEN "register" ELSE "loop64"
    /\ UNCHANGED <<detector_vars, resolver_vars, registry, overflow_checks, outcome, endian,
                   system_info, platform, memory_list, raw_stream, iter32, base_rva,
                   found, segment_data, next_segment, segments>>

\* lines 178-191: one turn of the 64-bit loop
Collect64 ==
    /\ pc = "loop64"
    /\ iter64 # <<>>
    /\ LET memory_segment == Head(iter64)
       IN  /\ found' = Append(found, [list |-> "64",
                                      rva |-> current_rva,
                                      base_address |-> memory_segment.base_address,
                                      size |-> memory_segment.size])
           /\ IF /\ overflow_checks
                 /\ ConstructorOverflows(current_rva, memory_segment.base_address,
                                         memory_segment.size)
              THEN Return("PanicOverflow") /\ UNCHANGED <<segment_data, iter64, current_rva>>
              ELSE /\ segment_data' = Append(segment_data,
                          from_addresses_and_size(current_rva,
                                                  memory_segment.base_address,
                                                  memory_segment.size))
                   /\ current_rva' = WrappingAdd(current_rva, memory_segment.size)
                   /\ iter64' = Tail(iter64)
                   /\ pc' = IF iter64' = <<>> THEN "register" ELSE "loop64"
                   /\ outcome' = outcome
    /\ UNCHANGED <<detector_vars, resolver_vars, registry, overflow_checks, endian,
                   system_info, platform, memory_list, raw_stream, memory64_list,
                   iter32, base_rva, next_segment, segments>>

\* Segment::builder(mapped_addr_range).parent_backing(rva_range).is_auto(true)
SegmentBuilder(segment) ==
    [range |-> segment.mapped_addr_range,
     parent_backing |-> segment.rva_range,
     is_auto |-> TRUE]

\* a range [start, end) shares an address with another
RangesOverlap(a, b) == a.start < b.end /\ b.start < a.end

\* a registration loop that leaves out a segment overlapping the one before it
AddSegment_skip_overlapping ==
    /\ pc = "register"
    /\ next_segment <= Len(segment_data)
    /\ LET segment == segment_data[next_segment]
       IN  segments' =
             IF /\ next_segment > 1
                /\ RangesOverlap(segment.mapped_addr_range,
                                 segment_data[next_segment - 1].mapped_addr_range)
             THEN segments
             ELSE Append(segments, SegmentBuilder(segment))
    /\ next_segment' = next_segment + 1
    /\ UNCHANGED <<detector_vars, resolver_vars, registry, overflow_checks, pc, outcome,
                   endian, system_info, platform, memory_list, raw_stream,
                   memory64_list, iter32, iter64, base_rva, current_rva, found,
                   segment_data>>

\* lines 197-203: one turn of the registration loop
AddSegment ==
    /\ pc = "register"
    /\ next_segment <= Len(segment_data)
    /\ segments' = Append(segments, SegmentBuilder(segment_data[next_segment]))
    /\ next_segment' = next_segment + 1
    /\ UNCHANGED <<detector_vars, resolver_vars, registry, overflow_checks, pc, outcome,
                   endian, system_info, platform, memory_list, raw_stream,
                   memory64_list, iter32, iter64, base_rva, current_rva, found,
                   segment_data>>

\* line 208: Ok(()) once the registration loop has run out
ReturnOk ==
    /\ pc = "register"
    /\ next_segment > Len(segment_data)
    /\ Return("Ok")
    /\ UNCHANGED <<detector_vars, resolver_vars, registry, overflow_checks, endian,
                   system_info, platform, memory_list, raw_stream, memory64_list,
                   iter32, iter64, base_rva, current_rva, found, segment_data,
                   next_segment, segments>>

Next ==
    \/ ParentView
    \/ ReadBuffer
    \/ MinidumpRead
    \/ GetSystemInfo
    \/ GetMemoryList
    \/ Collect32
    \/ GetRawStream
    \/ GetMemory64List
    \/ Collect64
    \/ AddSegment
    \/ ReturnOk

Spec == Init /\ [][Next]_vars

\* ------------------------------------------------- the detector on its own
InitDetector ==
    /\ data \in SeqsUpTo(ByteSet, MaxDataLen)
    /\ accepted = "unasked"
    /\ ResolverIdle
    /\ registry = PlatformNames
    /\ overflow_checks = FALSE
    /\ InitIdle("idle")

\* lines 61-66: is_valid_for(&self, data: &BinaryView), which only reads data
IsValidFor ==
    /\ accepted = "unasked"
    /\ accepted' = IF is_valid_for(data) THEN "accepted" ELSE "rejected"
    /\ UNCHANGED <<data, resolver_vars, registry, init_vars>>

NextDetector == IsValidFor

SpecDetector == InitDetector /\ [][NextDetector]_vars

\* ------------------------------------------------- the resolver on its own
\* registries: complete, empty, or missing one name
ResolverRegistries ==
    {PlatformNames, {}} \cup {PlatformNames \ {n} : n \in PlatformNames}

FlipEndian(e) == IF e = "Little" THEN "Big" ELSE "Little"

InitResolver ==
    /\ DetectorIdle
    /\ query \in [cpu : CpuSet, endian : EndianSet, os : OsSet]
    /\ resolved = "unasked"
    /\ resolved_flipped = "unasked"
    /\ registry \in ResolverRegistries
    /\ overflow_checks = FALSE
    /\ InitIdle("idle")

\* lines 211-253 on the query
Translate ==
    /\ resolved = "unasked"
    /\ resolved' = translate_minidump_platform(registry, query.cpu, query.endian, query.os)
    /\ UNCHANGED <<detector_vars, query, resolved_flipped, registry, init_vars>>

\* lines 211-253 on the query with the other byte order
TranslateFlipped ==
    /\ resolved_flipped = "unasked"
    /\ resolved_flipped' =
          translate_minidump_platform(registry, query.cpu, FlipEndian(query.endian), query.os)
    /\ UNCHANGED <<detector_vars, query, resolved, registry, init_vars>>

NextResolver == Translate \/ TranslateFlipped

SpecResolver == InitResolver /\ [][NextResolver]_vars

\* =================================================================== claims
\* regions of the 64-bit list whose turn of the loop has completed
N64Done == IF memory64_list.ok THEN Len(memory64_list.regions) - Len(iter64) ELSE 0
\* elements of segment_data that came from the 32-bit list
N32Done == Len(segment_data) - N64Done
\* the 32-bit loop has run to its end
Past32 == memory_list.ok /\ pc # "loop32"

RECURSIVE SumOfSizes(_, _)
\* s1 + ... + si of the regions of a list
SumOfSizes(regions, i) ==
    IF i = 0 THEN 0 ELSE SumOfSizes(regions, i - 1) + regions[i].size

\* the (file range, virtual range) pair of plain integer arithmetic
ExactPair(rva, vaddr, size) ==
    [rva_range |-> [start |-> rva, end |-> rva + size],
     mapped_addr_range |-> [start |-> vaddr, end |-> vaddr + size]]

\* the (os, cpu) pairs documented as supported
SupportedPairs ==
    ({"Windows", "MacOs"} \X {"Arm64", "Arm", "X86", "X86_64"}) \cup
    ({"Linux"} \X {"Arm64", "Arm", "X86", "X86_64", "Ppc", "Ppc64"})

\* C1: in the 64-bit path the i-th emitted segment has file range
\* [B + s1 + ... + s(i-1), B + s1 + ... + si) and virtual range [ai, ai + si),
\* B being the field at bytes 8..16 of the raw stream: each file range starts
\* where the one before it ended, the first at B.
C1_CumulativeFileRanges ==
    memory64_list.ok =>
        \A i \in 1..N64Done :
            segment_data[N32Done + i] =
                [rva_range |->
                    [start |-> raw_stream.field8 + SumOfSizes(memory64_list.regions, i - 1),
                     end |-> raw_stream.field8 + SumOfSizes(memory64_list.regions, i)],
                 mapped_addr_range |->
                    [start |-> memory64_list.regions[i].base_address,
                     end |-> memory64_list.regions[i].base_address
                             + memory64_list.regions[i].size]]

\* C2: whenever init returns Err (the parent view or its buffer cannot be
\* read, the container does not parse, the system-info stream is absent or
\* the triple resolves to no platform), set_default_platform has not been
\* called and no segment has been registered.
C2_FatalLeavesViewUnconfigured ==
    outcome = "Err" => platform = None /\ segments = <<>>

\* C2 witness: init failed on a system description that resolves to nothing
C2_Witness ==
    /\ outcome = "Err"
    /\ system_info.ok
    /\ translate_minidump_platform(registry, system_info.cpu, endian, system_info.os) = None

\* C3: once the container has opened and its system info has resolved to a
\* platform, init ends with Ok and that platform set, whatever the two
\* memory-list streams are; an absent or unparseable stream contributes no
\* segment and the other path's segments are all registered.
C3_SucceedsOncePlatformResolved ==
    (pc = "done" /\ system_info.ok /\
     translate_minidump_platform(registry, system_info.cpu, endian, system_info.os) # None)
    => /\ outcome = "Ok"
       /\ platform = translate_minidump_platform(registry, system_info.cpu, endian,
                                                 system_info.os)
       /\ Len(segments) = Len(segment_data)
       /\ (~memory_list.ok => \A i \in 1..Len(found) : found[i].list # "32")
       /\ (~(raw_stream.ok /\ memory64_list.ok) =>
               \A i \in 1..Len(found) : found[i].list # "64")

C5_EqualPositiveLengths ==
    \A i \in 1..Len(segments) :
        /\ segments[i].parent_backing.end - segments[i].parent_backing.start = found[i].size
        /\ segments[i].range.end - segments[i].range.start = found[i].size
        /\ found[i].size > 0

\* C6: the resolver returns a platform exactly for the supported (os, cpu)
\* pairs, and then only one the registry knows; the byte order changes the
\* result for Linux/Ppc and Linux/Ppc64 and for no other pair.
C6_ResolverTable ==
    /\ resolved # "unasked" =>
          /\ resolved # None =>
                <<query.os, query.cpu>> \in SupportedPairs /\ resolved \in registry
          /\ (<<query.os, query.cpu>> \in SupportedPairs /\ registry = PlatformNames)
                => resolved # None
          /\ <<query.os, query.cpu>> \notin SupportedPairs => resolved = None
    /\ (resolved # "unasked" /\ resolved_flipped # "unasked") =>
          /\ resolved # resolved_flipped =>
                query.os = "Linux" /\ query.cpu \in {"Ppc", "Ppc64"}
          /\ (query.os = "Linux" /\ query.cpu \in {"Ppc", "Ppc64"}
              /\ registry = PlatformNames) => resolved # resolved_flipped

\* C6 witness: Linux/Ppc64 resolved for both byte orders, to two platforms
C6_Witness ==
    /\ query.os = "Linux"
    /\ query.cpu = "Ppc64"
    /\ resolved \in registry
    /\ resolved_flipped \in registry
    /\ resolved # resolved_flipped

\* C7: is_valid_for accepts exactly the inputs whose first four bytes are
\* M, D, M, P, whatever follows; an input of fewer than four bytes is
\* rejected; and the input is never changed.
C7_AcceptsExactlyMDMP ==
    /\ [](accepted # "unasked" =>
            (accepted = "accepted" <=>
                /\ Len(data) >= 4
                /\ data[1] = Byte_M /\ data[2] = Byte_D
                /\ data[3] = Byte_M /\ data[4] = Byte_P))
    /\ [][data' = data]_vars

\* C7 witness: the three bytes M, D, M alone have been rejected
C7_Witness ==
    accepted = "rejected" /\ data = <<Byte_M, Byte_D, Byte_M>>

\* C8: init ends with Ok or with Err and never with a panic.
C8_NeverPanics ==
    outcome \in {"Running", "Ok", "Err"}

C10_NoWraparound ==
    /\ outcome # "PanicOverflow"
    /\ \A i \in 1..Len(segment_data) :
          /\ segment_data[i].rva_range.start <= segment_data[i].rva_range.end
          /\ segment_data[i].mapped_addr_range.start <= segment_data[i].mapped_addr_range.end
    /\ memory64_list.ok => current_rva >= base_rva

====
